---- MODULE Spec2Model ----
(***************************************************************************)
(* Model of IntercoreComms_HighLevelApp/main_a7.c: the high-level app that *)
(* sends a message to the real-time app every second, reads its replies,   *)
(* and simulates a reboot when the reply is the "reboot!!" sentinel.       *)
(*                                                                         *)
(* The main thread is a program counter `pc` walking main -> RunLoop ->    *)
(* InitHandlers -> dispatch loop -> CloseHandlers -> (pause) -> main.      *)
(* TerminationHandler is an asynchronous step that may run between any two *)
(* steps of the main thread.  Bytes are ASCII codes.                       *)
(***************************************************************************)
EXTENDS Integers, Sequences, FiniteSets, TLC

VARIABLES
    \* ---- program state
    pc,              \* position of the main thread
    exitCode,        \* static volatile sig_atomic_t exitCode
    code,            \* main's local `code` (last value returned by RunLoop)
    exitStatus,      \* value returned by main (NoStatus until main returns)
    sockFd,          \* static int sockFd
    eventLoop,       \* static EventLoop *eventLoop
    sendTimer,       \* static EventLoopTimer *sendTimer
    socketEventReg,  \* static EventRegistration *socketEventReg
    iter,            \* static int iter of SendMessageToRTApp
    txMessage,       \* static char txMessage[48], as the C string it holds
    rxBuf,           \* the bytes recv stored in SocketEventHandler's rxBuf
    bytesReceived,   \* SocketEventHandler's bytesReceived
    result,          \* RunLoop's `result` of the last EventLoop_Run
    errno,           \* errno left by the last failed EventLoop_Run
    \* ---- the operating system's side
    openFds,         \* descriptors currently open for the channel
    liveLoops,       \* event loops created and not yet closed
    liveTimers,      \* timers created and not yet disposed
    liveRegs,        \* io registrations made and not yet unregistered
    \* ---- history (observes the run, never read by the program)
    cycle,           \* number of RunLoop calls so far
    totalSends,      \* number of SendMessageToRTApp calls so far
    sentInCycle,     \* number of send() calls in the current cycle
    cbFired,         \* a callback was dispatched in the current cycle
    closesInCycle,   \* CloseHandlers calls in the current cycle
    closeLog,        \* what the last CloseHandlers was handed
    connCycle,       \* cycle of the last successful Application_Connect
    paused,          \* the current cycle slept in the reboot pause
    firstTerm,       \* when the first termination request was captured
    lateTerm,        \* a termination request was captured since RunLoop's return
    reboot           \* "none" | "pending" | "preempted": sentinel match under way

vars == <<pc, exitCode, code, exitStatus, sockFd, eventLoop, sendTimer,
          socketEventReg, iter, txMessage, rxBuf, bytesReceived, result, errno,
          openFds, liveLoops, liveTimers, liveRegs,
          cycle, totalSends, sentInCycle, cbFired, closesInCycle, closeLog,
          connCycle, paused, firstTerm, lateTerm, reboot>>

handles == <<sockFd, eventLoop, sendTimer, socketEventReg>>
msgVars == <<iter, txMessage, totalSends, sentInCycle>>
rxVars == <<rxBuf, bytesReceived>>
runVars == <<result, errno>>
mainVars == <<code, exitStatus>>
osVars == <<openFds, liveLoops, liveTimers, liveRegs>>
cycleHist == <<cycle, cbFired, closesInCycle, closeLog, paused>>
termHist == <<firstTerm, lateTerm, reboot>>

----------------------------------------------------------------------------
\* Bounds of the model.
MaxCycles == 3
MaxSends == 2
MaxFds == 1
MaxWrapSends == 101

\* Program constants.
RECV_BUFF_SIZE == 32
TxMessageSize == 48
NULL == 0
InvalidFd == -1
NoStatus == 0 - 1

ExitCode_Success == 0
ExitCode_TermHandler_SigTerm == 1
ExitCode_TimerHandler_Consume == 2
ExitCode_SendMsg_Send == 3
ExitCode_SocketHandler_Recv == 4
ExitCode_Init_EventLoop == 5
ExitCode_Init_SendTimer == 6
ExitCode_Init_Connection == 7
ExitCode_Init_SetSockOpt == 8
ExitCode_Init_RegisterIo == 9
ExitCode_Main_EventLoopFail == 10
ExitCode_Main_EventLoopSimReboot == 11

\* The descriptor numbers Application_Connect may hand out.
Fds == 1..MaxFds

\* "reboot!!"
RebootStr == <<114, 101, 98, 111, 111, 116, 33, 33>>

\* "hl-app-to-rt-app-adding"
TxPrefix == <<104, 108, 45, 97, 112, 112, 45, 116, 111, 45, 114, 116, 45,
              97, 112, 112, 45, 97, 100, 100, 105, 110, 103>>

\* What the real-time app may send: nothing, proper prefixes of the sentinel,
\* the sentinel, a one-byte variation, longer payloads, an ordinary reply, and
\* a payload longer than the receive buffer.
Payloads ==
    { <<>>,
      <<114>>,
      <<114, 101, 98, 111, 111, 116>>,
      RebootStr,
      <<114, 101, 98, 111, 111, 116, 33, 63>>,
      RebootStr \o <<120>>,
      RebootStr \o <<0, 120>>,
      <<104, 105>>,
      [i \in 1..(RECV_BUFF_SIZE + 1) |-> 120] }

----------------------------------------------------------------------------
\* Pure functions.

Min(a, b) == IF a < b THEN a ELSE b

Take(s, n) == SubSeq(s, 1, Min(n, Len(s)))

\* The byte of C string s at 1-based index i: its terminating NUL past the end.
CharAt(s, i) == IF i <= Len(s) THEN s[i] ELSE 0

\* strncmp(s1, s2, n) continued from index i: compares at most n bytes and
\* stops at the first difference or at a NUL common to both.
RECURSIVE StrncmpFrom(_, _, _, _)
StrncmpFrom(s1, s2, i, n) ==
    IF i > n THEN 0
    ELSE IF CharAt(s1, i) # CharAt(s2, i) THEN CharAt(s1, i) - CharAt(s2, i)
    ELSE IF CharAt(s1, i) = 0 THEN 0
    ELSE StrncmpFrom(s1, s2, i + 1, n)

Strncmp(s1, s2, n) == StrncmpFrom(s1, s2, 1, n)

\* MsgParseIsReboot(rxBuf, len); buf holds the len bytes recv stored.
MsgParseIsReboot(buf, len) ==
    IF len <= 0 THEN FALSE
    ELSE Strncmp(buf, RebootStr, len) = 0

\* printf's %02d for 0 <= n: at least two decimal digits, zero padded.
RECURSIVE Digits(_)
Digits(n) == IF n < 10 THEN <<48 + n>> ELSE Digits(n \div 10) \o <<48 + (n % 10)>>

Fmt02d(n) == IF n < 10 THEN <<48>> \o Digits(n) ELSE Digits(n)

\* snprintf(txMessage, sizeof(txMessage), "hl-app-to-rt-app-adding%02d", n)
FormatTxMessage(n) == Take(TxPrefix \o Fmt02d(n), TxMessageSize - 1)

\* NextIter without the wrap.
NextIterNoWrap(n) == n + 1

\* iter = (iter + 1) % 100
NextIter(n) == (n + 1) % 100

----------------------------------------------------------------------------
NoCloseLog == [timer |-> "none", reg |-> "none", loop |-> "none", fd |-> "none"]

NoTerm == [cycle |-> 0, at |-> "none", clean |-> FALSE]

\* The phase of the main thread at position p.
Phase(p) ==
    IF p \in {"init_loop", "init_timer", "init_connect", "init_sockopt", "init_register"}
    THEN "init"
    ELSE IF p \in {"timer_consume", "send_msg", "send_call", "sock_recv", "sock_classify"}
    THEN "handler"
    ELSE IF p \in {"dispatch", "check_result"} THEN "dispatch"
    ELSE IF p \in {"close", "reboot_check", "ret"} THEN "shutdown"
    ELSE IF p \in {"main_check", "main_ret"} THEN "main"
    ELSE p

Init ==
    /\ pc = "main_start"
    /\ exitCode = ExitCode_Success
    /\ code = NoStatus
    /\ exitStatus = NoStatus
    /\ sockFd = InvalidFd
    /\ eventLoop = NULL
    /\ sendTimer = NULL
    /\ socketEventReg = NULL
    /\ iter = 0
    /\ txMessage = <<>>
    /\ rxBuf = <<>>
    /\ bytesReceived = 0
    /\ result = "none"
    /\ errno = "none"
    /\ openFds = {}
    /\ liveLoops = {}
    /\ liveTimers = {}
    /\ liveRegs = {}
    /\ cycle = 0
    /\ totalSends = 0
    /\ sentInCycle = 0
    /\ cbFired = FALSE
    /\ closesInCycle = 0
    /\ closeLog = NoCloseLog
    /\ connCycle = 0
    /\ paused = FALSE
    /\ firstTerm = NoTerm
    /\ lateTerm = FALSE
    /\ reboot = "none"

----------------------------------------------------------------------------
\* main and RunLoop entry.

\* A call of RunLoop: the per-cycle history starts afresh.
EnterRunLoop ==
    /\ pc' = "init_loop"
    /\ cycle' = cycle + 1
    /\ cbFired' = FALSE
    /\ closesInCycle' = 0
    /\ closeLog' = NoCloseLog
    /\ paused' = FALSE
    /\ sentInCycle' = 0

\* main up to the first call of RunLoop: InitSigterm installs the handler.
MainStart ==
    /\ pc = "main_start"
    /\ EnterRunLoop
    /\ UNCHANGED <<exitCode, handles, iter, txMessage, totalSends, rxVars, runVars,
                   mainVars, osVars, connCycle, termHist>>

----------------------------------------------------------------------------
\* InitHandlers.  A failing step returns its exit code, which RunLoop stores in
\* exitCode; the last step's success returns ExitCode_Success, stored likewise.

\* InitFailed returning from RunLoop at once, past CloseHandlers.
InitFailedEarlyReturn(ec) ==
    /\ exitCode' = ec
    /\ pc' = "reboot_check"

\* RunLoop dropping InitHandlers' return value.
InitFailedIgnored(ec) ==
    /\ exitCode' = ExitCode_Success
    /\ pc' = "loop_check"

InitFailed(ec) ==
    /\ exitCode' = ec
    /\ pc' = "loop_check"

InitEventLoop ==
    /\ pc = "init_loop"
    /\ \/ /\ eventLoop' = cycle
          /\ liveLoops' = liveLoops \cup {cycle}
          /\ pc' = "init_timer"
          /\ UNCHANGED exitCode
       \/ /\ eventLoop' = NULL
          /\ InitFailed(ExitCode_Init_EventLoop)
          /\ UNCHANGED liveLoops
    /\ UNCHANGED <<sockFd, sendTimer, socketEventReg, msgVars, rxVars, runVars,
                   mainVars, openFds, liveTimers, liveRegs, cycleHist, connCycle,
                   termHist>>

\* InitSendTimer returning the event loop's failure code.
InitSendTimerWrongCode ==
    /\ pc = "init_timer"
    /\ \/ /\ sendTimer' = cycle
          /\ liveTimers' = liveTimers \cup {cycle}
          /\ pc' = "init_connect"
          /\ UNCHANGED exitCode
       \/ /\ sendTimer' = NULL
          /\ InitFailed(ExitCode_Init_EventLoop)
          /\ UNCHANGED liveTimers
    /\ UNCHANGED <<sockFd, eventLoop, socketEventReg, msgVars, rxVars, runVars,
                   mainVars, openFds, liveLoops, liveRegs, cycleHist, connCycle,
                   termHist>>

InitSendTimer ==
    /\ pc = "init_timer"
    /\ \/ /\ sendTimer' = cycle
          /\ liveTimers' = liveTimers \cup {cycle}
          /\ pc' = "init_connect"
          /\ UNCHANGED exitCode
       \/ /\ sendTimer' = NULL
          /\ InitFailed(ExitCode_Init_SendTimer)
          /\ UNCHANGED liveTimers
    /\ UNCHANGED <<sockFd, eventLoop, socketEventReg, msgVars, rxVars, runVars,
                   mainVars, openFds, liveLoops, liveRegs, cycleHist, connCycle,
                   termHist>>

\* InitConnect keeping a descriptor sockFd already holds instead of connecting.
InitConnectReuse ==
    /\ pc = "init_connect"
    /\ IF sockFd # InvalidFd
       THEN /\ pc' = "init_sockopt"
            /\ UNCHANGED <<sockFd, openFds, connCycle, exitCode>>
       ELSE \/ \E fd \in Fds \ openFds :
                  /\ sockFd' = fd
                  /\ openFds' = openFds \cup {fd}
                  /\ connCycle' = cycle
                  /\ pc' = "init_sockopt"
                  /\ UNCHANGED exitCode
            \/ /\ sockFd' = InvalidFd
               /\ InitFailed(ExitCode_Init_Connection)
               /\ UNCHANGED <<openFds, connCycle>>
    /\ UNCHANGED <<eventLoop, sendTimer, socketEventReg, msgVars, rxVars, runVars,
                   mainVars, liveLoops, liveTimers, liveRegs, cycleHist, termHist>>

InitConnect ==
    /\ pc = "init_connect"
    /\ \/ \E fd \in Fds \ openFds :
             /\ sockFd' = fd
             /\ openFds' = openFds \cup {fd}
             /\ connCycle' = cycle
             /\ pc' = "init_sockopt"
             /\ UNCHANGED exitCode
       \/ /\ sockFd' = InvalidFd
          /\ InitFailed(ExitCode_Init_Connection)
          /\ UNCHANGED <<openFds, connCycle>>
    /\ UNCHANGED <<eventLoop, sendTimer, socketEventReg, msgVars, rxVars, runVars,
                   mainVars, liveLoops, liveTimers, liveRegs, cycleHist, termHist>>

InitSetSockOpt ==
    /\ pc = "init_sockopt"
    /\ \/ /\ pc' = "init_register"
          /\ UNCHANGED exitCode
       \/ InitFailed(ExitCode_Init_SetSockOpt)
    /\ UNCHANGED <<handles, msgVars, rxVars, runVars, mainVars, osVars, cycleHist,
                   connCycle, termHist>>

InitRegisterIo ==
    /\ pc = "init_register"
    /\ \/ /\ socketEventReg' = cycle
          /\ liveRegs' = liveRegs \cup {cycle}
          /\ exitCode' = ExitCode_Success
          /\ pc' = "loop_check"
       \/ /\ socketEventReg' = NULL
          /\ InitFailed(ExitCode_Init_RegisterIo)
          /\ UNCHANGED liveRegs
    /\ UNCHANGED <<sockFd, eventLoop, sendTimer, msgVars, rxVars, runVars,
                   mainVars, openFds, liveLoops, liveTimers, cycleHist, connCycle,
                   termHist>>

----------------------------------------------------------------------------
\* RunLoop's dispatch loop.

\* The loop test going round again after a failed send.
LoopCheckRetriesSend ==
    /\ pc = "loop_check"
    /\ pc' = IF exitCode \in {ExitCode_Success, ExitCode_SendMsg_Send}
             THEN "dispatch" ELSE "close"
    /\ UNCHANGED <<exitCode, handles, msgVars, rxVars, runVars, mainVars, osVars,
                   cycleHist, connCycle, termHist>>

\* while (exitCode == ExitCode_Success)
LoopCheck ==
    /\ pc = "loop_check"
    /\ pc' = IF exitCode = ExitCode_Success THEN "dispatch" ELSE "close"
    /\ UNCHANGED <<exitCode, handles, msgVars, rxVars, runVars, mainVars, osVars,
                   cycleHist, connCycle, termHist>>

\* EventLoop_Run dispatches the timer event to SendTimerEventHandler.
DispatchTimer ==
    /\ pc = "dispatch"
    /\ sendTimer \in liveTimers
    /\ totalSends < MaxSends
    /\ pc' = "timer_consume"
    /\ cbFired' = TRUE
    /\ UNCHANGED <<exitCode, handles, msgVars, rxVars, runVars, mainVars, osVars,
                   cycle, closesInCycle, closeLog, paused, connCycle, termHist>>

\* EventLoop_Run dispatches the socket's input event to SocketEventHandler.
\* In the last cycle the model explores, the real-time app stays silent.
DispatchSocket ==
    /\ pc = "dispatch"
    /\ socketEventReg \in liveRegs
    /\ cycle < MaxCycles
    /\ pc' = "sock_recv"
    /\ cbFired' = TRUE
    /\ UNCHANGED <<exitCode, handles, msgVars, rxVars, runVars, mainVars, osVars,
                   cycle, closesInCycle, closeLog, paused, connCycle, termHist>>

\* EventLoop_Run fails without dispatching: interrupted (EINTR) or broken.
DispatchFail ==
    /\ pc = "dispatch"
    /\ result' = "Failed"
    /\ errno' \in {"EINTR", "EBADF"}
    /\ pc' = "check_result"
    /\ UNCHANGED <<exitCode, handles, msgVars, rxVars, mainVars, osVars, cycleHist,
                   connCycle, termHist>>

\* CheckResult resuming after EINTR by resetting exitCode to success.
CheckResultClearsOnEintr ==
    /\ pc = "check_result"
    /\ exitCode' = IF result = "Failed"
                   THEN (IF errno = "EINTR" THEN ExitCode_Success
                         ELSE ExitCode_Main_EventLoopFail)
                   ELSE exitCode
    /\ pc' = "loop_check"
    /\ UNCHANGED <<handles, msgVars, rxVars, runVars, mainVars, osVars, cycleHist,
                   connCycle, termHist>>

\* CheckResult without the EINTR exemption.
CheckResultNoEintr ==
    /\ pc = "check_result"
    /\ exitCode' = IF result = "Failed" THEN ExitCode_Main_EventLoopFail ELSE exitCode
    /\ pc' = "loop_check"
    /\ UNCHANGED <<handles, msgVars, rxVars, runVars, mainVars, osVars, cycleHist,
                   connCycle, termHist>>

\* if (result == EventLoop_Run_Failed && errno != EINTR)
CheckResult ==
    /\ pc = "check_result"
    /\ exitCode' = IF result = "Failed" /\ errno # "EINTR"
                   THEN ExitCode_Main_EventLoopFail
                   ELSE exitCode
    /\ pc' = "loop_check"
    /\ UNCHANGED <<handles, msgVars, rxVars, runVars, mainVars, osVars, cycleHist,
                   connCycle, termHist>>

----------------------------------------------------------------------------
\* SendTimerEventHandler and SendMessageToRTApp.

\* The handler returns to EventLoop_Run, which returns to RunLoop.
HandlerReturns ==
    /\ result' = "FinishedOneEvent"
    /\ errno' = errno
    /\ pc' = "check_result"

TimerConsume ==
    /\ pc = "timer_consume"
    /\ \/ /\ exitCode' = ExitCode_TimerHandler_Consume
          /\ HandlerReturns
       \/ /\ pc' = "send_msg"
          /\ UNCHANGED <<exitCode, runVars>>
    /\ UNCHANGED <<handles, msgVars, rxVars, mainVars, osVars, cycleHist, connCycle,
                   termHist>>

\* snprintf into txMessage, then iter = (iter + 1) % 100.
SendFormat ==
    /\ pc = "send_msg"
    /\ txMessage' = FormatTxMessage(iter)
    /\ iter' = NextIter(iter)
    /\ totalSends' = totalSends + 1
    /\ pc' = "send_call"
    /\ UNCHANGED <<exitCode, handles, sentInCycle, rxVars, runVars, mainVars, osVars,
                   cycleHist, connCycle, termHist>>

\* send(sockFd, txMessage, strlen(txMessage), 0) and the test of its result.
SendCall ==
    /\ pc = "send_call"
    /\ \/ exitCode' = ExitCode_SendMsg_Send
       \/ UNCHANGED exitCode
    /\ sentInCycle' = sentInCycle + 1
    /\ HandlerReturns
    /\ UNCHANGED <<handles, iter, txMessage, totalSends, rxVars, mainVars, osVars,
                   cycleHist, connCycle, termHist>>

----------------------------------------------------------------------------
\* SocketEventHandler.

\* recv(fd, rxBuf, sizeof(rxBuf), 0): an error leaves the (uninitialised) buffer
\* holding whatever the stack held; a payload is truncated to the buffer.
SockRecv ==
    /\ pc = "sock_recv"
    /\ \/ /\ bytesReceived' = -1
          /\ rxBuf' \in {<<>>, RebootStr}
       \/ \E p \in Payloads :
             /\ bytesReceived' = Min(Len(p), RECV_BUFF_SIZE)
             /\ rxBuf' = Take(p, RECV_BUFF_SIZE)
    /\ pc' = "sock_classify"
    /\ UNCHANGED <<exitCode, handles, msgVars, runVars, mainVars, osVars, cycleHist,
                   connCycle, termHist>>

\* SocketEventHandler without the test of recv's result.
SockClassifyNoErrorTest ==
    /\ pc = "sock_classify"
    /\ IF MsgParseIsReboot(rxBuf, bytesReceived)
       THEN /\ exitCode' = ExitCode_Main_EventLoopSimReboot
            /\ reboot' = "pending"
       ELSE UNCHANGED <<exitCode, reboot>>
    /\ rxBuf' = <<>>
    /\ bytesReceived' = 0
    /\ HandlerReturns
    /\ UNCHANGED <<handles, msgVars, mainVars, osVars, cycleHist, connCycle,
                   firstTerm, lateTerm>>

\* The rest of the handler: the error test, the log, MsgParseIsReboot.
SockClassify ==
    /\ pc = "sock_classify"
    /\ IF bytesReceived = -1
       THEN /\ exitCode' = ExitCode_SocketHandler_Recv
            /\ UNCHANGED reboot
       ELSE IF MsgParseIsReboot(rxBuf, bytesReceived)
       THEN /\ exitCode' = ExitCode_Main_EventLoopSimReboot
            /\ reboot' = "pending"
       ELSE UNCHANGED <<exitCode, reboot>>
    /\ rxBuf' = <<>>
    /\ bytesReceived' = 0
    /\ HandlerReturns
    /\ UNCHANGED <<handles, msgVars, mainVars, osVars, cycleHist, connCycle,
                   firstTerm, lateTerm>>

----------------------------------------------------------------------------
\* CloseHandlers and the rest of RunLoop.

\* What a release call is handed: nothing, a live object, or one already released.
HandleState(h, live) ==
    IF h = NULL THEN "null" ELSE IF h \in live THEN "live" ELSE "stale"

\* CloseFdAndPrintError closes only if fd >= 0.
FdState(fd) ==
    IF fd >= 0 THEN (IF fd \in openFds THEN "open" ELSE "stale") ELSE "skipped"

\* DisposeEventLoopTimer(sendTimer); EventLoop_UnregisterIo(eventLoop,
\* socketEventReg); EventLoop_Close(eventLoop); CloseFdAndPrintError(sockFd).
\* None of the four statics is reset.  Releasing an object that was already
\* released is undefined: the run goes on, or the process dies there.
CloseHandlers ==
    /\ pc = "close"
    /\ closeLog' = [timer |-> HandleState(sendTimer, liveTimers),
                    reg   |-> HandleState(socketEventReg, liveRegs),
                    loop  |-> HandleState(eventLoop, liveLoops),
                    fd    |-> FdState(sockFd)]
    /\ liveTimers' = liveTimers \ {sendTimer}
    /\ liveRegs' = liveRegs \ {socketEventReg}
    /\ liveLoops' = liveLoops \ {eventLoop}
    /\ openFds' = openFds \ {sockFd}
    /\ closesInCycle' = closesInCycle + 1
    /\ \/ pc' = "reboot_check"
       \/ /\ "stale" \in {closeLog'.timer, closeLog'.reg, closeLog'.loop}
          /\ pc' = "crashed"
    /\ UNCHANGED <<exitCode, handles, msgVars, rxVars, runVars, mainVars, cycle,
                   cbFired, paused, connCycle, termHist>>

\* if (exitCode == ExitCode_Main_EventLoopSimReboot)
RebootCheck ==
    /\ pc = "reboot_check"
    /\ pc' = IF exitCode = ExitCode_Main_EventLoopSimReboot THEN "pause" ELSE "ret"
    /\ UNCHANGED <<exitCode, handles, msgVars, rxVars, runVars, mainVars, osVars,
                   cycleHist, connCycle, termHist>>

\* nanosleep(&wait, NULL), run to its end or interrupted.
Pause ==
    /\ pc = "pause"
    /\ paused' = TRUE
    /\ pc' = "ret"
    /\ UNCHANGED <<exitCode, handles, msgVars, rxVars, runVars, mainVars, osVars,
                   cycle, cbFired, closesInCycle, closeLog, connCycle, termHist>>

\* return exitCode;  and main's  code = RunLoop()
RunLoopReturns ==
    /\ pc = "ret"
    /\ code' = exitCode
    /\ lateTerm' = FALSE
    /\ pc' = "main_check"
    /\ UNCHANGED <<exitCode, exitStatus, handles, msgVars, rxVars, runVars, osVars,
                   cycleHist, connCycle, firstTerm, reboot>>

\* MainCheck without the loop: main calls RunLoop once.
MainCheckNoLoop ==
    /\ pc = "main_check"
    /\ pc' = "main_ret"
    /\ UNCHANGED <<exitCode, handles, msgVars, rxVars, runVars, mainVars, osVars,
                   cycleHist, connCycle, termHist>>

\* while ((code = RunLoop()) == ExitCode_Main_EventLoopSimReboot);
MainCheck ==
    /\ pc = "main_check"
    /\ IF code = ExitCode_Main_EventLoopSimReboot
       THEN /\ EnterRunLoop
            /\ reboot' = "none"
       ELSE /\ pc' = "main_ret"
            /\ UNCHANGED <<cycleHist, sentInCycle, reboot>>
    /\ UNCHANGED <<exitCode, handles, iter, txMessage, totalSends, rxVars, runVars,
                   mainVars, osVars, connCycle, firstTerm, lateTerm>>

\* MainReturns with a constant status.
MainReturnsSuccess ==
    /\ pc = "main_ret"
    /\ exitStatus' = ExitCode_Success
    /\ pc' = "done"
    /\ UNCHANGED <<exitCode, code, handles, msgVars, rxVars, runVars, osVars,
                   cycleHist, connCycle, termHist>>

\* return exitCode;
MainReturns ==
    /\ pc = "main_ret"
    /\ exitStatus' = exitCode
    /\ pc' = "done"
    /\ UNCHANGED <<exitCode, code, handles, msgVars, rxVars, runVars, osVars,
                   cycleHist, connCycle, termHist>>

----------------------------------------------------------------------------
\* TerminationHandler: SIGTERM is delivered once InitSigterm installed it.

\* A handler that also closes the channel.
TerminationHandlerClosesSocket ==
    /\ exitCode' = ExitCode_TermHandler_SigTerm
    /\ lateTerm' = (lateTerm \/ pc \in {"main_check", "main_ret"})
    /\ reboot' = IF reboot = "pending" THEN "preempted" ELSE reboot
    /\ sockFd' = InvalidFd
    /\ openFds' = openFds \ {sockFd}
    /\ UNCHANGED <<eventLoop, sendTimer, socketEventReg, msgVars, rxVars, mainVars,
                   liveLoops, liveTimers, liveRegs>>

\* exitCode = ExitCode_TermHandler_SigTerm;
TerminationHandler ==
    /\ exitCode' = ExitCode_TermHandler_SigTerm
    /\ lateTerm' = (lateTerm \/ pc \in {"main_check", "main_ret"})
    /\ reboot' = IF reboot = "pending" THEN "preempted" ELSE reboot
    /\ UNCHANGED <<handles, msgVars, rxVars, mainVars, osVars>>

\* The signal lands between two steps of the main thread, which goes on from
\* where it was.
Terminate ==
    /\ pc \notin {"main_start", "done", "crashed"}
    /\ TerminationHandler
    /\ firstTerm' = IF firstTerm = NoTerm
                    THEN [cycle |-> cycle, at |-> Phase(pc),
                          clean |-> (~cbFired /\ exitCode = ExitCode_Success)]
                    ELSE firstTerm
    /\ UNCHANGED <<pc, runVars, cycleHist, connCycle>>

\* The signal lands while EventLoop_Run is blocked waiting: the wait is
\* interrupted and EventLoop_Run fails with EINTR without dispatching.
TerminateInterruptsWait ==
    /\ pc = "dispatch"
    /\ TerminationHandler
    /\ firstTerm' = IF firstTerm = NoTerm
                    THEN [cycle |-> cycle, at |-> "wait",
                          clean |-> (~cbFired /\ exitCode = ExitCode_Success)]
                    ELSE firstTerm
    /\ result' = "Failed"
    /\ errno' = "EINTR"
    /\ pc' = "check_result"
    /\ UNCHANGED <<cycleHist, connCycle>>

----------------------------------------------------------------------------
\* The main thread's steps.
Step ==
    \/ MainStart
    \/ InitEventLoop
    \/ InitSendTimer
    \/ InitConnect
    \/ InitSetSockOpt
    \/ InitRegisterIo
    \/ LoopCheck
    \/ DispatchTimer
    \/ DispatchSocket
    \/ DispatchFail
    \/ CheckResult
    \/ TimerConsume
    \/ SendFormat
    \/ SendCall
    \/ SockRecv
    \/ SockClassify
    \/ CloseHandlers
    \/ RebootCheck
    \/ Pause
    \/ RunLoopReturns
    \/ MainCheck
    \/ MainReturns

Next ==
    \/ MainStart
    \/ InitEventLoop
    \/ InitSendTimer
    \/ InitConnect
    \/ InitSetSockOpt
    \/ InitRegisterIo
    \/ LoopCheck
    \/ DispatchTimer
    \/ DispatchSocket
    \/ DispatchFail
    \/ CheckResult
    \/ TimerConsume
    \/ SendFormat
    \/ SendCall
    \/ SockRecv
    \/ SockClassify
    \/ CloseHandlers
    \/ RebootCheck
    \/ Pause
    \/ RunLoopReturns
    \/ MainCheck
    \/ MainReturns
    \/ Terminate
    \/ TerminateInterruptsWait

Spec == Init /\ [][Next]_vars

\* The main thread keeps running: every call it makes returns (the timer fires
\* every second, recv has a 5 s timeout, nanosleep ends after 10 s).
LiveSpec == Init /\ [][Next]_vars /\ WF_vars(Step)

\* EventLoop_Run dispatches the timer event, in the long run of WrapSpec.
DispatchTimerLong ==
    /\ pc = "dispatch"
    /\ sendTimer \in liveTimers
    /\ totalSends < MaxWrapSends
    /\ pc' = "timer_consume"
    /\ cbFired' = TRUE
    /\ UNCHANGED <<exitCode, handles, msgVars, rxVars, runVars, mainVars, osVars,
                   cycle, closesInCycle, closeLog, paused, connCycle, termHist>>

\* The run in which the real-time app stays silent and no signal arrives: the
\* timer fires until a call fails, long enough for the counter to wrap.
WrapNext ==
    \/ MainStart
    \/ InitEventLoop
    \/ InitSendTimer
    \/ InitConnect
    \/ InitSetSockOpt
    \/ InitRegisterIo
    \/ LoopCheck
    \/ DispatchTimerLong
    \/ DispatchFail
    \/ CheckResult
    \/ TimerConsume
    \/ SendFormat
    \/ SendCall
    \/ CloseHandlers
    \/ RebootCheck
    \/ RunLoopReturns
    \/ MainCheck
    \/ MainReturns

WrapSpec == Init /\ [][WrapNext]_vars

----------------------------------------------------------------------------
\* Properties.

\* The positions of the main thread inside the dispatch loop.
RunningPcs == {"loop_check", "dispatch", "wait", "check_result", "timer_consume",
               "send_msg", "send_call", "sock_recv", "sock_classify"}

\* C1: MsgParseIsReboot(rxBuf, len) is true if and only if len is 8 and the
\* eight bytes received are "reboot!!"; it is false for every other payload
\* (length 0, any other length, eight bytes differing somewhere).
C1_SentinelExactMatch ==
    (pc = "sock_classify" /\ bytesReceived >= 0)
        => (MsgParseIsReboot(rxBuf, bytesReceived)
              <=> (bytesReceived = Len(RebootStr) /\ rxBuf = RebootStr))

\* C2: the first message sent in every cycle, the first cycle and every cycle
\* that follows a simulated reboot, carries the counter value 00.
C2_FirstMessageIsZero ==
    (pc = "send_call" /\ sentInCycle = 0) => txMessage = TxPrefix \o <<48, 48>>

\* C3: a termination request captured while a cycle is Running, also in the
\* middle of a handler, ends the process with status 1 and never leads to a
\* restart: no later write of exitCode replaces it.
C3_TerminationNeverReplaced ==
    firstTerm.at = "handler"
        => /\ cycle = firstTerm.cycle
           /\ pc = "done" => exitStatus = ExitCode_TermHandler_SigTerm

\* The first termination request was captured right after a successful
\* InitHandlers, before any callback: at the loop's test of exitCode, or
\* interrupting EventLoop_Run's wait.
CleanTerm ==
    /\ firstTerm.at \in {"loop_check", "wait"}
    /\ firstTerm.clean

C5_RebootRestarts ==
    /\ [][(pc = "sock_classify" /\ pc' # pc /\ bytesReceived = Len(RebootStr)
             /\ rxBuf = RebootStr)
            => (exitCode' = ExitCode_Main_EventLoopSimReboot /\ reboot' = "pending")]_vars
    /\ [](reboot = "pending"
            => /\ exitCode = ExitCode_Main_EventLoopSimReboot
               /\ pc \in {"check_result", "loop_check", "close", "reboot_check",
                          "pause", "ret", "main_check"})
    /\ [][(reboot = "pending" /\ pc = "main_check" /\ pc' # pc)
            => (pc' = "init_loop" /\ cycle' = cycle + 1 /\ closesInCycle = 1 /\ paused)]_vars
    /\ [](pc \in (RunningPcs \ {"loop_check"})
            => (connCycle = cycle /\ sockFd \in openFds))
    /\ (reboot = "pending") ~> (reboot = "preempted" \/ (reboot = "none" /\ pc = "init_loop"))

C5_Witness ==
    /\ cycle = 2
    /\ pc = "dispatch"
    /\ connCycle = 2
    /\ firstTerm = NoTerm

\* C6: if Application_Connect fails, CloseHandlers attempts no cleanup of what
\* the cycle never created (no unregister of a registration, no close of the
\* socket), and the process exits with status 7 without another cycle.
C6_NoCleanupOfUncreated ==
    (closesInCycle = 1 /\ sendTimer = cycle /\ connCycle # cycle)
        => /\ closeLog.reg # "stale"
           /\ closeLog.fd = "skipped"
           /\ (pc = "done" /\ firstTerm = NoTerm)
                 => exitStatus = ExitCode_Init_Connection

\* C7: a failed EventLoop_Run with errno EINTR never sets exitCode to 10, and
\* while exitCode is still success the loop dispatches again; a failed
\* EventLoop_Run with any other errno sets exitCode to 10.
C7_EintrTolerated ==
    [][/\ (pc = "check_result" /\ pc' # pc /\ result = "Failed")
            => IF errno = "EINTR"
               THEN exitCode' = exitCode /\ exitCode' # ExitCode_Main_EventLoopFail
               ELSE exitCode' = ExitCode_Main_EventLoopFail
       /\ (pc = "loop_check" /\ pc' # pc /\ exitCode = ExitCode_Success)
            => pc' = "dispatch"]_vars

C7_Witness ==
    /\ pc = "dispatch"
    /\ result = "Failed"
    /\ errno = "EINTR"
    /\ exitCode = ExitCode_Success

\* C8 as stated: only the simulated reboot starts another cycle, and the status
\* main returns equals the status with which the last cycle ended.
C8_ExitStatusIsCycleStatus ==
    pc = "done" => exitStatus = code

\* C8 amended: only the simulated reboot starts another cycle; the status main
\* returns is the one RunLoop returned for the last cycle, or 1 when a
\* termination request was captured after that return.
C8_ExitStatusOrLateTerm ==
    /\ [][(pc = "main_check" /\ pc' # pc)
            => (pc' = "init_loop" <=> code = ExitCode_Main_EventLoopSimReboot)]_vars
    /\ [](pc = "done"
            => /\ code # ExitCode_Main_EventLoopSimReboot
               /\ \/ exitStatus = code
                  \/ lateTerm /\ exitStatus = ExitCode_TermHandler_SigTerm)

C8_Witness ==
    /\ pc = "done"
    /\ lateTerm
    /\ code = ExitCode_SendMsg_Send
    /\ exitStatus = ExitCode_TermHandler_SigTerm

\* C9: whenever the process exits, its exit status is not the simulated-reboot
\* value 11.
C9_NeverExitsWithReboot ==
    pc = "done" => exitStatus # ExitCode_Main_EventLoopSimReboot

C9_Witness ==
    /\ pc = "done"
    /\ reboot = "preempted"
    /\ exitStatus = ExitCode_TermHandler_SigTerm

\* C10: sockFd holds a descriptor only between a successful connect and the
\* CloseHandlers of the same cycle; at every other time it is -1.
C10_SockFdValidOnlyWhileOpen ==
    sockFd \notin openFds => sockFd = InvalidFd

\* The positions of RunLoop after CloseHandlers.
AfterClosePcs == {"reboot_check", "pause", "ret"}

\* The positions of RunLoop before CloseHandlers.
BeforeClosePcs == {"init_loop", "init_timer", "init_connect", "init_sockopt",
                   "init_register", "close"} \cup RunningPcs

\* C11: CloseHandlers runs exactly once in every cycle, after the dispatch loop
\* has stopped and before RunLoop returns, whatever ended the cycle: an init
\* failure, an operational failure, a termination request, a simulated reboot.
C11_CloseExactlyOnce ==
    /\ [](pc \in BeforeClosePcs => closesInCycle = 0)
    /\ [](pc \in AfterClosePcs \cup {"main_check", "main_ret", "done"}
            => closesInCycle = 1)
    /\ [][(pc = "ret" /\ pc' # pc) => closesInCycle = 1]_vars
    /\ [][closesInCycle' = closesInCycle + 1
            => (pc = "close" /\ exitCode # ExitCode_Success)]_vars

C11_Witness ==
    /\ pc = "main_check"
    /\ cycle = 2
    /\ closesInCycle = 1
    /\ code = ExitCode_Init_SendTimer

\* C12: the counter stays in [0, 100); every SendMessageToRTApp formats the
\* current value as two zero-padded decimal digits after the prefix and
\* advances the counter by one modulo 100, whatever send() returns; so every
\* 100 sends bring the counter back, and 100 sends from 0 leave it at 0.
C12_CounterWraps ==
    /\ [](iter \in 0..99)
    /\ [](iter = totalSends % 100)
    /\ [](totalSends = 100 => iter = 0)
    /\ [][(pc = "send_msg" /\ pc' # pc)
            => /\ txMessage' = TxPrefix \o <<48 + (iter \div 10), 48 + (iter % 10)>>
               /\ iter' = (IF iter = 99 THEN 0 ELSE iter + 1)
               /\ totalSends' = totalSends + 1]_vars
    /\ [][(pc = "send_call" /\ pc' # pc)
            => (iter' = iter /\ txMessage' = txMessage)]_vars
    /\ [][iter' # iter => pc = "send_msg"]_vars

C12_Witness ==
    /\ pc = "send_call"
    /\ totalSends = 100
    /\ iter = 0
    /\ txMessage = TxPrefix \o <<57, 57>>

\* The five steps of InitHandlers, in order.
InitOrder == <<"init_loop", "init_timer", "init_connect", "init_sockopt",
               "init_register">>

InitPcs == {InitOrder[i] : i \in 1..Len(InitOrder)}

InitIndex(p) == CHOOSE i \in 1..Len(InitOrder) : InitOrder[i] = p

\* The failure status of the i-th step.
InitFailStatus(i) == ExitCode_Init_EventLoop + (i - 1)

\* What the steps after the i-th create is as it was.
LaterStepsUntouched(i) ==
    /\ i < 2 => (sendTimer' = sendTimer /\ liveTimers' = liveTimers)
    /\ i < 3 => (sockFd' = sockFd /\ openFds' = openFds /\ connCycle' = connCycle)
    /\ i < 5 => (socketEventReg' = socketEventReg /\ liveRegs' = liveRegs)

\* Every step of InitHandlers succeeded in the current cycle.
InitComplete ==
    /\ eventLoop = cycle /\ eventLoop \in liveLoops
    /\ sendTimer = cycle /\ sendTimer \in liveTimers
    /\ connCycle = cycle /\ sockFd \in openFds
    /\ socketEventReg = cycle /\ socketEventReg \in liveRegs

\* C13: InitHandlers runs event-loop creation, timer registration, connect,
\* socket option, readiness registration in that order; the first step that
\* fails ends it with that step's status (5..9) and no later step is attempted
\* in the cycle; the dispatch loop is entered only if all five succeeded.
C13_InitOrder ==
    /\ [][(pc \in InitPcs /\ pc' # pc)
            => LET i == InitIndex(pc) IN
               \/ /\ i < Len(InitOrder)
                  /\ pc' = InitOrder[i + 1]
                  /\ exitCode' = exitCode
                  /\ LaterStepsUntouched(i)
               \/ /\ i = Len(InitOrder)
                  /\ pc' = "loop_check"
                  /\ exitCode' = ExitCode_Success
                  /\ InitComplete'
               \/ /\ pc' = "loop_check"
                  /\ exitCode' = InitFailStatus(i)
                  /\ ~InitComplete'
                  /\ LaterStepsUntouched(i)]_vars
    /\ [][(pc' \in InitPcs /\ pc' # pc)
            => \/ pc \in InitPcs
               \/ pc \in {"main_start", "main_check"} /\ pc' = "init_loop"
                    /\ cycle' = cycle + 1]_vars
    /\ [](pc \in InitPcs => (InitIndex(pc) > 1 => eventLoop = cycle)
                            /\ (InitIndex(pc) > 2 => sendTimer = cycle)
                            /\ (InitIndex(pc) > 3 => connCycle = cycle))
    /\ [](pc \in (RunningPcs \ {"loop_check"}) => InitComplete)

C13_Witness ==
    /\ pc = "loop_check"
    /\ cycle = 2
    /\ exitCode = ExitCode_Init_SetSockOpt
    /\ connCycle = 2
    /\ socketEventReg = 1

\* The statuses only a callback stores.
CallbackStatuses == {ExitCode_TimerHandler_Consume, ExitCode_SendMsg_Send,
                     ExitCode_SocketHandler_Recv, ExitCode_Main_EventLoopSimReboot}

TimerHandlerPcs == {"timer_consume", "send_msg", "send_call"}

SocketHandlerPcs == {"sock_recv", "sock_classify"}

HandlerPcs == TimerHandlerPcs \cup SocketHandlerPcs

\* C14: a callback that stores a status other than success returns at once to
\* the dispatch loop, which checks the status after the dispatch return and goes
\* to shutdown: no callback is dispatched again in the cycle, each dispatch
\* runs one callback, and a failed send or receive is not retried.
C14_NoDispatchAfterFailure ==
    /\ [][(exitCode' \in CallbackStatuses /\ exitCode' # exitCode)
            => (pc \in HandlerPcs /\ pc' = "check_result")]_vars
    /\ [][(pc \in {"check_result", "loop_check"} /\ exitCode # ExitCode_Success)
            => /\ exitCode' # ExitCode_Success
               /\ pc' \in {pc, IF pc = "check_result" THEN "loop_check" ELSE "close"}
               /\ UNCHANGED <<totalSends, sentInCycle>>]_vars
    /\ [][(pc \in HandlerPcs /\ pc' # pc)
            => \/ pc' = "check_result"
               \/ pc \in TimerHandlerPcs /\ pc' \in TimerHandlerPcs
               \/ pc \in SocketHandlerPcs /\ pc' \in SocketHandlerPcs]_vars
    /\ [][(pc' \in HandlerPcs /\ pc \notin HandlerPcs) => pc = "dispatch"]_vars
    /\ [][(pc' = "dispatch" /\ pc' # pc)
            => (pc = "loop_check" /\ exitCode = ExitCode_Success)]_vars
    /\ [](exitCode \in CallbackStatuses => pc \notin HandlerPcs \cup {"dispatch"})

C14_Witness ==
    /\ pc = "close"
    /\ exitCode = ExitCode_SendMsg_Send
    /\ sentInCycle = 2
    /\ cbFired

\* C15: when recv reports an error, SocketEventHandler stores the
\* receive-failed status 4 and returns without classifying the buffer: the
\* simulated-reboot status is not set whatever the buffer holds, and the cycle
\* ends without another read.
C15_RecvErrorEndsCycle ==
    /\ [][(pc = "sock_classify" /\ pc' # pc /\ bytesReceived = -1)
            => /\ exitCode' = ExitCode_SocketHandler_Recv
               /\ reboot' = reboot
               /\ pc' = "check_result"]_vars
    /\ [][(exitCode' = ExitCode_SocketHandler_Recv /\ exitCode' # exitCode)
            => (pc = "sock_classify" /\ bytesReceived = -1)]_vars
    /\ [](exitCode = ExitCode_SocketHandler_Recv
            => pc \notin HandlerPcs \cup {"dispatch", "pause", "init_loop"})
    /\ [][(pc' = "sock_recv" /\ pc' # pc)
            => exitCode \notin {ExitCode_SocketHandler_Recv}]_vars

C15_Witness ==
    /\ pc = "check_result"
    /\ exitCode = ExitCode_SocketHandler_Recv
    /\ result = "FinishedOneEvent"
    /\ reboot = "none"
    /\ cycle = 1

\* C16: a successful read, of any length from 0, whose payload is not the
\* eight sentinel bytes leaves the run status, the outbound counter and the
\* channel handle unchanged, and the handler returns to a cycle that is still
\* running.
C16_NonSentinelReadIsNoOp ==
    [][(/\ pc = "sock_classify"
        /\ pc' # pc
        /\ bytesReceived >= 0
        /\ ~(bytesReceived = Len(RebootStr) /\ rxBuf = RebootStr))
          => /\ exitCode' = exitCode
             /\ iter' = iter
             /\ sockFd' = sockFd
             /\ pc' = "check_result"]_vars

\* C17: TerminationHandler writes the termination-request status to the run
\* status and nothing else: the channel handle, the event loop, the timer, the
\* readiness registration, the outbound counter and the receive buffer are the
\* same after the handler as before it, in whatever state it is invoked.
C17_HandlerSingleWrite ==
    /\ [][(Terminate \/ TerminateInterruptsWait)
            => /\ exitCode' = ExitCode_TermHandler_SigTerm
               /\ UNCHANGED <<sockFd, eventLoop, sendTimer, socketEventReg>>
               /\ UNCHANGED <<openFds, liveLoops, liveTimers, liveRegs>>
               /\ UNCHANGED <<iter, txMessage, rxBuf, bytesReceived>>
               /\ UNCHANGED <<code, exitStatus>>]_vars
    /\ [][(exitCode' = ExitCode_TermHandler_SigTerm /\ exitCode' # exitCode)
            => /\ UNCHANGED <<sockFd, eventLoop, sendTimer, socketEventReg>>
               /\ UNCHANGED <<openFds, liveLoops, liveTimers, liveRegs>>
               /\ UNCHANGED <<iter, txMessage, rxBuf, bytesReceived>>]_vars

C17_Witness ==
    /\ pc = "sock_classify"
    /\ exitCode = ExitCode_TermHandler_SigTerm
    /\ firstTerm.at = "handler"
    /\ rxBuf = RebootStr
    /\ sockFd \in openFds
    /\ InitComplete
    /\ iter = 1

\* C18: over any sequence of cycles CloseHandlers never disposes, unregisters
\* or closes a timer, registration, event loop or descriptor that an earlier
\* CloseHandlers already released.
C18_ReleasedAtMostOnce ==
    \A r \in {"timer", "reg", "loop", "fd"} : closeLog[r] # "stale"

\* C19: a termination request captured while a cycle is initializing, or
\* during the simulated-reboot pause, is not lost: the dispatch loop is not
\* entered or continued afterwards and the process ends with the
\* termination-request status.
C19_TermOutsideRunningKept ==
    firstTerm.at \in {"init", "pause"}
        => /\ pc \notin HandlerPcs \cup {"dispatch"}
           /\ pc = "done" => exitStatus = ExitCode_TermHandler_SigTerm

\* C20: every send and every recv is made on a descriptor that is open: the
\* two callbacks run only inside a dispatch of a cycle whose InitHandlers
\* completed every step and whose CloseHandlers has not run, so neither call
\* is handed -1 or a descriptor closed by an earlier cycle.
C20_SendRecvOnOpenChannel ==
    /\ [](pc \in {"send_call", "sock_recv"}
            => /\ sockFd # InvalidFd
               /\ sockFd \in openFds
               /\ connCycle = cycle)
    /\ [](pc \in HandlerPcs => (InitComplete /\ closesInCycle = 0))
    /\ [][(pc' \in HandlerPcs /\ pc \notin HandlerPcs)
            => (pc = "dispatch" /\ InitComplete /\ closesInCycle = 0)]_vars
    /\ [][(totalSends' # totalSends \/ bytesReceived' # bytesReceived)
            => (pc \in HandlerPcs /\ sockFd \in openFds)]_vars

C20_Witness ==
    /\ pc = "send_call"
    /\ cycle = 2
    /\ connCycle = 2
    /\ sockFd \in openFds
    /\ sentInCycle = 0
    /\ totalSends = 2

====
